---- MODULE Spec2Model ----
(***************************************************************************)
(* A model of src/src/settings.ts of obsidian-pdf-plus: the backlink       *)
(* highlighter (BacklinkHighlighter), the settings tab (PDFPlusSettingTab)  *)
(* and the DOM event utilities (onModKeyPress, showChildElOnParentElHover). *)
(*                                                                         *)
(* Strings the code parses are tuples of one-character strings, so that    *)
(* split(',') and parseInt are computed and not assumed.                    *)
(***************************************************************************)
EXTENDS Integers, Sequences, FiniteSets, TLC

(***************************************************************************)
(* JavaScript values                                                       *)
(***************************************************************************)

\* parseInt's NaN. The link texts of the model carry no sign character, so
\* every parsed number is a natural and -1 is free to stand for NaN.
NaN == -1

\* `undefined`, as the value of an absent colorName.
Undefined == <<"undefined">>

Digits == <<"0", "1", "2", "3", "4", "5", "6", "7", "8", "9">>

IsDigit(c) == \E i \in 1..10 : Digits[i] = c

DigitVal(c) == (CHOOSE i \in 1..10 : Digits[i] = c) - 1

RECURSIVE ParseDigits(_, _, _)
\* the value of the longest prefix of digits of s[i..], acc the value so far
ParseDigits(s, i, acc) ==
    IF i > Len(s) \/ ~IsDigit(s[i]) THEN acc
    ELSE ParseDigits(s, i + 1, acc * 10 + DigitVal(s[i]))

\* parseInt(s): the number the leading digits denote, NaN when there are none
ParseInt(s) ==
    IF Len(s) = 0 \/ ~IsDigit(s[1]) THEN NaN ELSE ParseDigits(s, 1, 0)

RECURSIVE SplitFrom(_, _, _, _)
\* String.prototype.split(sep) on a tuple of characters: cur is the field
\* being read, out the fields already closed
SplitFrom(s, i, cur, out) ==
    IF i > Len(s) THEN Append(out, cur)
    ELSE IF s[i] = "," THEN SplitFrom(s, i + 1, <<>>, Append(out, cur))
    ELSE SplitFrom(s, i + 1, Append(cur, s[i]), out)

Split(s) == SplitFrom(s, 1, <<>>, <<>>)

\* URLSearchParams.has / .get on a list of <<key, value>> pairs
ParamsHas(params, key) == \E i \in 1..Len(params) : params[i][1] = key

ParamsGet(params, key) ==
    params[CHOOSE i \in 1..Len(params) :
              /\ params[i][1] = key
              /\ \A j \in 1..(i - 1) : params[j][1] # key][2]

(***************************************************************************)
(* Link texts: the subpath of each link as URLSearchParams reads it.       *)
(***************************************************************************)

Links == <<
    \* 1: page=1&selection=0,0,0,2
    <<  <<"page", <<"1">>>>, <<"selection", <<"0", ",", "0", ",", "0", ",", "2">>>> >>,
    \* 2: page=1&selection=0,1,1,2&color=Red
    <<  <<"page", <<"1">>>>, <<"selection", <<"0", ",", "1", ",", "1", ",", "2">>>>,
        <<"color", <<"R", "e", "d">>>> >>,
    \* 3: page=1&selection=1,0,5,1      (endIndex beyond the page's text divs)
    <<  <<"page", <<"1">>>>, <<"selection", <<"1", ",", "0", ",", "5", ",", "1">>>> >>,
    \* 4: page=2&selection=0,0,0,1
    <<  <<"page", <<"2">>>>, <<"selection", <<"0", ",", "0", ",", "0", ",", "1">>>> >>,
    \* 5: page=1&annotation=7R
    <<  <<"page", <<"1">>>>, <<"annotation", <<"7", "R">>>> >>,
    \* 6: page=2&annotation=7R&selection=0,0,0,1&color=Red
    <<  <<"page", <<"2">>>>, <<"annotation", <<"7", "R">>>>,
        <<"selection", <<"0", ",", "0", ",", "0", ",", "1">>>>,
        <<"color", <<"R", "e", "d">>>> >>,
    \* 7: page=1&selection=0,0,1        (three fields)
    <<  <<"page", <<"1">>>>, <<"selection", <<"0", ",", "0", ",", "1">>>> >>,
    \* 8: selection=0,0,0,1             (no page)
    <<  <<"selection", <<"0", ",", "0", ",", "0", ",", "1">>>> >>,
    \* 9: page=x&selection=1x,,0,12&color=   (fields that are not numbers)
    <<  <<"page", <<"x">>>>, <<"selection", <<"1", "x", ",", ",", "0", ",", "1", "2">>>>,
        <<"color", <<>>>> >>,
    \* 10: page=2&annotation=9R&color=Red
    <<  <<"page", <<"2">>>>, <<"annotation", <<"9", "R">>>>, <<"color", <<"R", "e", "d">>>> >>,
    \* 11: annotation=7R&selection=0,0,1 (annotation without page, three fields)
    <<  <<"annotation", <<"7", "R">>>>, <<"selection", <<"0", ",", "0", ",", "1">>>> >>
>>

LinkIds == 1..Len(Links)

(***************************************************************************)
(* BacklinkHighlighter.setBacklinks                                        *)
(***************************************************************************)

EmptyPage == [selection |-> <<>>, annotation |-> <<>>]

\* this.backlinks[page].<kind>.push(d), creating the page's entry on demand
PushBacklink(bl, page, kind, d) ==
    LET withPage == IF page \in DOMAIN bl THEN bl ELSE (page :> EmptyPage) @@ bl
    IN  [withPage EXCEPT ![page][kind] = Append(@, d)]

SelectionInfo(id, page, selection, color) ==
    [type |-> "selection", link |-> id, pageNumber |-> page,
     beginIndex |-> selection[1], beginOffset |-> selection[2],
     endIndex |-> selection[3], endOffset |-> selection[4],
     colorName |-> color]

AnnotationInfo(id, page, annotation) ==
    [type |-> "annotation", link |-> id, pageNumber |-> page, id |-> annotation]

\* setBacklinks with the check of selection.length left out
MutAddBacklinkAnyLength(bl, id) ==
    LET params == Links[id]
    IN  IF ParamsHas(params, "page") /\ ParamsHas(params, "selection")
        THEN LET page == ParseInt(ParamsGet(params, "page"))
                 fields == Split(ParamsGet(params, "selection"))
                 selection == [i \in 1..4 |->
                                  IF i <= Len(fields) THEN ParseInt(fields[i]) ELSE NaN]
                 color == IF ParamsHas(params, "color")
                          THEN ParamsGet(params, "color") ELSE Undefined
             IN  PushBacklink(bl, page, "selection",
                              SelectionInfo(id, page, selection, color))
        ELSE IF ParamsHas(params, "page") /\ ParamsHas(params, "annotation")
        THEN LET page == ParseInt(ParamsGet(params, "page"))
             IN  PushBacklink(bl, page, "annotation",
                              AnnotationInfo(id, page, ParamsGet(params, "annotation")))
        ELSE bl

\* setBacklinks with the annotation branch left out
MutAddBacklinkSelectionOnly(bl, id) ==
    LET params == Links[id]
    IN  IF ParamsHas(params, "page") /\ ParamsHas(params, "selection")
        THEN LET page == ParseInt(ParamsGet(params, "page"))
                 fields == Split(ParamsGet(params, "selection"))
                 selection == [i \in 1..Len(fields) |-> ParseInt(fields[i])]
                 color == IF ParamsHas(params, "color")
                          THEN ParamsGet(params, "color") ELSE Undefined
             IN  IF Len(selection) = 4
                 THEN PushBacklink(bl, page, "selection",
                                   SelectionInfo(id, page, selection, color))
                 ELSE bl
        ELSE bl

\* the body of the loop of setBacklinks for one link
AddBacklink(bl, id) ==
    LET params == Links[id]
    IN  IF ParamsHas(params, "page") /\ ParamsHas(params, "selection")
        THEN LET page == ParseInt(ParamsGet(params, "page"))
                 fields == Split(ParamsGet(params, "selection"))
                 selection == [i \in 1..Len(fields) |-> ParseInt(fields[i])]
                 color == IF ParamsHas(params, "color")
                          THEN ParamsGet(params, "color") ELSE Undefined
             IN  IF Len(selection) = 4
                 THEN PushBacklink(bl, page, "selection",
                                   SelectionInfo(id, page, selection, color))
                 ELSE bl
        ELSE IF ParamsHas(params, "page") /\ ParamsHas(params, "annotation")
        THEN LET page == ParseInt(ParamsGet(params, "page"))
             IN  PushBacklink(bl, page, "annotation",
                              AnnotationInfo(id, page, ParamsGet(params, "annotation")))
        ELSE bl

RECURSIVE AddBacklinksFrom(_, _, _)
\* the two nested loops of setBacklinks: the links of the cache in the order
\* getBacklinksForFile yields them (ascending id)
AddBacklinksFrom(bl, links, id) ==
    IF id > Len(Links) THEN bl
    ELSE AddBacklinksFrom(IF id \in links THEN AddBacklink(bl, id) ELSE bl, links, id + 1)

\* setBacklinks without `this.backlinks = {}`
MutSetBacklinksKeepOld(old, links) == AddBacklinksFrom(old, links, 1)

\* setBacklinks(file): old is this.backlinks before the call, links the
\* backlinks the metadata cache holds for the file
SetBacklinks(old, links) == AddBacklinksFrom(<<>>, links, 1)

(***************************************************************************)
(* The PDF viewer: pages, text layers, annotation layers                    *)
(***************************************************************************)

\* viewer.pagesCount
NumPages == 2

Pages == 1..NumPages

\* the number of text divs (= text content items) of a page's text layer
DivCount(p) == IF p = 1 THEN 3 ELSE 1

\* textContentItems[index].str, the same three characters for every item
Str == <<"a", "b", "c">>

\* the ids of the annotations a page's annotation layer holds
PageAnnotations(p) == IF p = 1 THEN {<<"7", "R">>} ELSE {}

\* an omitted argument of substring
NoArg == -2

\* String.prototype.substring(from, to): NaN and negatives count as 0, values
\* beyond the length as the length, an omitted `to` as the length, and the two
\* ends are swapped when from > to
Clamp(s, n) == IF n = NoArg THEN Len(s) ELSE IF n < 0 THEN 0 ELSE IF n > Len(s) THEN Len(s) ELSE n

Substring(s, from, to) ==
    LET a == Clamp(s, IF from = NoArg THEN 0 ELSE from)
        b == Clamp(s, to)
        lo == IF a <= b THEN a ELSE b
        hi == IF a <= b THEN b ELSE a
    IN  SubSeq(s, lo + 1, hi)

LowerChar(c) ==
    IF c = "R" THEN "r" ELSE IF c = "B" THEN "b" ELSE IF c = "Y" THEN "y"
    ELSE IF c = "G" THEN "g" ELSE c

\* String.prototype.toLowerCase
ToLowerCase(s) == [i \in 1..Len(s) |-> LowerChar(s[i])]

\* a text node of a text div
TextNode(text) == [hl |-> FALSE, owner |-> 0, text |-> text, color |-> Undefined]

\* a highlight wrapper span created for the backlink of link `owner`
WrapperNode(owner, text, color) == [hl |-> TRUE, owner |-> owner, text |-> text, color |-> color]

\* a text div as the renderer leaves it: one text node, no highlight class
FreshDiv == [children |-> <<TextNode(Str)>>, mid |-> {}]

FreshDivs(p) == [i \in 1..DivCount(p) |-> FreshDiv]

RECURSIVE ConcatText(_, _)
ConcatText(children, i) ==
    IF i > Len(children) THEN <<>> ELSE children[i].text \o ConcatText(children, i + 1)

\* Node.textContent of a text div
TextContent(div) == ConcatText(div.children, 1)

\* a DOM element the highlighter hands to onHighlight: a wrapper span
\* (kind "hl"), a text div highlighted as a whole (kind "mid") or an
\* annotation element (kind "annot"), made for the backlink of link `owner`.
\* The sets of elements the model keeps hold the elements that are still in
\* the document: a detached element receives no pointer event any more.
Element(kind, page, div, owner) ==
    [kind |-> kind, page |-> page, div |-> div, owner |-> owner]

\* no element
NoEl == Element("none", 0, 0, 0)

\* the elements of `els` still in the document after the children of text
\* div `index` of `page` were replaced: its wrapper spans are gone
DetachWrappers(els, page, index) ==
    {e \in els : ~(e.kind = "hl" /\ e.page = page /\ e.div = index)}

\* the elements of `els` still in the document after the text layer of
\* `page` was destroyed
DetachPage(els, page) ==
    {e \in els : ~(e.kind \in {"hl", "mid"} /\ e.page = page)}

(***************************************************************************)
(* BacklinkHighlighter: highlightText, clearTextHighlight                   *)
(*                                                                         *)
(* The methods are operators on a record st of the fields they change:     *)
(*   backlinks, annotationEls, highlightedTexts, textDivs, listeners,       *)
(*   emLoaded, textCb, annotCb, and threw (an exception is propagating).    *)
(* Indices are the code's 0-based ones; textDivs[p][index + 1] is the div.  *)
(***************************************************************************)

Throw(st) == [st EXCEPT !.threw = TRUE]

\* textDivs[index] is an element and not undefined
InRange(divs, index) == index >= 0 /\ index < Len(divs)

\* JavaScript truthiness of a colorName: neither undefined nor ''
Truthy(colorName) == colorName # Undefined /\ colorName # <<>>

\* hookEventHandlers(backlink, annotationEl): the DOM events of the element
\* are registered with eventManager
HookEventHandlers(st, owner, el) ==
    [st EXCEPT !.listeners = @ \cup {el}]

\* the onHighlight callback _highlightBacklinks passes to highlightText
OnHighlight(st, owner, el) ==
    HookEventHandlers([st EXCEPT !.annotationEls[owner] = @ \cup {el}], owner, el)

\* textDivs[index].textContent = text: the children of the div are replaced
SetTextContent(st, page, index, children) ==
    [st EXCEPT !.textDivs[page][index + 1].children = children,
               !.replaced = @ \cup {<<page, index>>},
               !.listeners = DetachWrappers(@, page, index),
               !.annotationEls = [l \in DOMAIN @ |-> DetachWrappers(@[l], page, index)]]

\* divideAndWrapText(index, from, to, className) of highlightText
DivideAndWrapText(st, page, index, from, to, hasClass, owner, colorName) ==
    IF st.threw THEN st
    ELSE LET pushed == [st EXCEPT !.highlightedTexts = Append(@, <<page, index>>)]
         IN  IF ~InRange(st.textDivs[page], index) THEN Throw(pushed)
             ELSE LET text == Substring(Str, from, to)
                      color == IF Truthy(colorName) THEN ToLowerCase(colorName) ELSE Undefined
                  IN  IF hasClass
                      THEN OnHighlight(
                              [pushed EXCEPT !.textDivs[page][index + 1].children =
                                                Append(@, WrapperNode(owner, text, color))],
                              owner, Element("hl", page, index, owner))
                      ELSE [pushed EXCEPT !.textDivs[page][index + 1].children =
                                              Append(@, TextNode(text))]

\* divideAndWrapTextStart(index, offset, className) of highlightText
DivideAndWrapTextStart(st, page, index, offset, hasClass, owner, colorName) ==
    IF st.threw THEN st
    ELSE IF ~InRange(st.textDivs[page], index) THEN Throw(st)
    ELSE DivideAndWrapText(SetTextContent(st, page, index, <<>>),
                           page, index, 0, offset, hasClass, owner, colorName)

RECURSIVE MiddleDivs(_, _, _, _, _, _)
\* the for loop of highlightText over the text divs between begin and end
MiddleDivs(st, page, i, endIndex, owner, colorName) ==
    IF st.threw \/ ~(i < endIndex) THEN st
    ELSE LET pushed == [st EXCEPT !.highlightedTexts = Append(@, <<page, i>>)]
         IN  IF ~InRange(st.textDivs[page], i) THEN Throw(pushed)
             ELSE MiddleDivs(
                     OnHighlight([pushed EXCEPT !.textDivs[page][i + 1].mid = @ \cup {owner}],
                                 owner, Element("mid", page, i, owner)),
                     page, i + 1, endIndex, owner, colorName)

\* highlightText once the page view and its text layer were found
HighlightTextBody(st, page, beginIndex, beginOffset, endIndex, endOffset, colorName, owner) ==
    LET s1 == DivideAndWrapTextStart(st, page, beginIndex, beginOffset, FALSE, owner, colorName)
        s2 == IF beginIndex = endIndex /\ beginIndex # NaN
              THEN DivideAndWrapText(s1, page, beginIndex, beginOffset, endOffset,
                                     TRUE, owner, colorName)
              ELSE LET b == DivideAndWrapText(s1, page, beginIndex, beginOffset, NoArg,
                                              TRUE, owner, colorName)
                       m == MiddleDivs(b, page, beginIndex + 1, endIndex, owner, colorName)
                   IN  DivideAndWrapTextStart(m, page, endIndex, endOffset, TRUE, owner, colorName)
    IN  DivideAndWrapText(s2, page, endIndex, endOffset, NoArg, FALSE, owner, colorName)

\* highlightText(pageNumber, beginIndex, ..., colorName, onHighlight); layers
\* is the set of pages whose page view has a text layer and is loaded
HighlightText(st, layers, pageNumber, beginIndex, beginOffset, endIndex, endOffset, colorName, owner) ==
    IF st.threw THEN st
    ELSE IF pageNumber # NaN /\ (pageNumber < 1 \/ pageNumber > NumPages) THEN st
    ELSE IF pageNumber \notin layers THEN st
    ELSE HighlightTextBody(st, pageNumber, beginIndex, beginOffset, endIndex, endOffset,
                           colorName, owner)

RECURSIVE ClearEntries(_, _, _)
\* the loop of clearTextHighlight over highlightedTexts, from entry i on;
\* the result carries `returned` when the loop left the method early
ClearEntries(st, layers, i) ==
    IF i > Len(st.highlightedTexts) THEN [st EXCEPT !.highlightedTexts = <<>>]
    ELSE LET page == st.highlightedTexts[i][1]
             index == st.highlightedTexts[i][2]
         IN  IF page \notin layers THEN st
             ELSE IF ~InRange(st.textDivs[page], index) THEN Throw(st)
             ELSE LET restored == SetTextContent(st, page, index, <<TextNode(Str)>>)
                      unclassed == [restored EXCEPT !.textDivs[page][index + 1].mid = {}]
                      onPage == IF page \in DOMAIN st.backlinks
                                THEN {st.backlinks[page].selection[k].link :
                                        k \in 1..Len(st.backlinks[page].selection)}
                                ELSE {}
                  IN  ClearEntries(
                          [unclassed EXCEPT !.annotationEls =
                              [l \in DOMAIN @ |-> IF l \in onPage THEN {} ELSE @[l]]],
                          layers, i + 1)

\* clearTextHighlight()
ClearTextHighlight(st, layers) ==
    IF st.threw THEN st ELSE ClearEntries(st, layers, 1)

RECURSIVE HighlightSelections(_, _, _, _, _)
\* the loop of the text-layer callback over this.backlinks[pageNumber].selection
HighlightSelections(st, layers, colorOnly, pageNumber, k) ==
    IF st.threw \/ pageNumber \notin DOMAIN st.backlinks THEN st
    ELSE IF k > Len(st.backlinks[pageNumber].selection) THEN st
    ELSE LET backlink == st.backlinks[pageNumber].selection[k]
         IN  IF ~Truthy(backlink.colorName) /\ colorOnly
             THEN HighlightSelections(st, layers, colorOnly, pageNumber, k + 1)
             ELSE HighlightSelections(
                     HighlightText(st, layers, pageNumber, backlink.beginIndex,
                                   backlink.beginOffset, backlink.endIndex, backlink.endOffset,
                                   backlink.colorName, backlink.link),
                     layers, colorOnly, pageNumber, k + 1)

\* the text-layer callback with the test of highlightColorSpecifiedOnly left out
MutTextLayerCallbackIgnoresSetting(st, layers, colorOnly, pageNumber) ==
    HighlightSelections(st, layers, FALSE, pageNumber, 1)

\* the callback _highlightBacklinks hands to onTextLayerReady
TextLayerCallback(st, layers, colorOnly, pageNumber) ==
    HighlightSelections(st, layers, colorOnly, pageNumber, 1)

\* processAnnotation(pageNumber, id, callback): the callback runs when the
\* annotation layer of the page holds an element with that annotation id
ProcessAnnotation(st, annotLayers, pageNumber, id, owner) ==
    IF pageNumber # NaN /\ (pageNumber < 1 \/ pageNumber > NumPages) THEN st
    ELSE IF pageNumber \notin annotLayers THEN st
    ELSE IF id \notin PageAnnotations(pageNumber) THEN st
    ELSE LET el == Element("annot", pageNumber, 0, owner)
         IN  HookEventHandlers([st EXCEPT !.annotationEls[owner] = {el}], owner, el)

RECURSIVE ProcessAnnotations(_, _, _, _)
\* the loop of the annotation-layer callback over this.backlinks[pageNumber].annotation
ProcessAnnotations(st, annotLayers, pageNumber, k) ==
    IF st.threw \/ pageNumber \notin DOMAIN st.backlinks THEN st
    ELSE IF k > Len(st.backlinks[pageNumber].annotation) THEN st
    ELSE LET backlink == st.backlinks[pageNumber].annotation[k]
         IN  ProcessAnnotations(
                 ProcessAnnotation(st, annotLayers, pageNumber, backlink.id, backlink.link),
                 annotLayers, pageNumber, k + 1)

\* the callback _highlightBacklinks hands to onAnnotationLayerReady
AnnotationLayerCallback(st, annotLayers, pageNumber) ==
    ProcessAnnotations(st, annotLayers, pageNumber, 1)

(***************************************************************************)
(* Obsidian's Component, as far as the highlighter uses it                  *)
(***************************************************************************)

\* eventManager.unload(): a loaded component runs what was registered with
\* it, which removes its DOM listeners and its layer callbacks
UnloadEventManager(st) ==
    IF st.emLoaded
    THEN [st EXCEPT !.emLoaded = FALSE, !.listeners = {}, !.textCb = FALSE, !.annotCb = FALSE]
    ELSE st

\* this.removeChild(this.eventManager); this.addChild(this.eventManager):
\* the child is unloaded, and loaded again only if the parent is loaded
ReloadEventManager(st, parentLoaded) ==
    [UnloadEventManager(st) EXCEPT !.emLoaded = parentLoaded]

RECURSIVE ReadyPages(_, _, _, _, _)
\* the pages whose layer is ready already get the callback at once, in page order
ReadyPages(st, layers, colorOnly, p, text) ==
    IF st.threw \/ p > NumPages THEN st
    ELSE ReadyPages(IF p \notin layers THEN st
                    ELSE IF text THEN TextLayerCallback(st, layers, colorOnly, p)
                    ELSE AnnotationLayerCallback(st, layers, p),
                    layers, colorOnly, p + 1, text)

\* onTextLayerReady(viewer, component, cb): cb runs for every page whose text
\* layer is ready, and is registered for the text layers rendered later
OnTextLayerReady(st, layers, colorOnly) ==
    LET s == ReadyPages(st, layers, colorOnly, 1, TRUE)
    IN  IF s.threw THEN s ELSE [s EXCEPT !.textCb = TRUE]

\* onAnnotationLayerReady(viewer, component, cb)
OnAnnotationLayerReady(st, annotLayers) ==
    LET s == ReadyPages(st, annotLayers, FALSE, 1, FALSE)
    IN  IF s.threw THEN s ELSE [s EXCEPT !.annotCb = TRUE]

(***************************************************************************)
(* BacklinkHighlighter._highlightBacklinks, after its three early returns   *)
(***************************************************************************)

EmptyEls == [l \in LinkIds |-> {}]

HighlightRound(st, links, layers, annotLayers, colorOnly, parentLoaded) ==
    LET s1 == [st EXCEPT !.backlinks = SetBacklinks(st.backlinks, links),
                         !.annotationEls = EmptyEls]
        s2 == ClearTextHighlight(s1, layers)
        s3 == IF s2.threw THEN s2 ELSE ReloadEventManager(s2, parentLoaded)
        s4 == IF s3.threw THEN s3 ELSE OnTextLayerReady(s3, layers, colorOnly)
    IN  IF s4.threw THEN s4 ELSE OnAnnotationLayerReady(s4, annotLayers)

(***************************************************************************)
(* State                                                                   *)
(***************************************************************************)

VARIABLES
    \* the plugin's settings object and what saveSettings stored last
    settings, saved,
    \* PDFPlusSettingTab
    tabShown,           \* display() has built the tab and hide() has not emptied it
    rows,               \* the closures of addColorSetting, one per color row
    options,            \* the option elements of the default-color dropdown
    dropdownShown,      \* the default-color dropdown is part of the tab
    tabOps,             \* how many times the tab was shown, hidden or edited
    \* BacklinkHighlighter
    isEmbed,            \* viewer.isEmbed
    loaded,             \* the highlighter's Component is loaded
    file,               \* this.file is not null
    backlinks,          \* this.backlinks: page key -> [selection, annotation]
    annotationEls,      \* backlink.annotationEls of the descriptor of each link,
                        \* the elements of it that are still in the document
    highlightedTexts,   \* this.highlightedTexts: <<page, index>> entries
    highlightedAnnotations, \* this.highlightedAnnotations: the rectangle mapped by each id
    emLoaded,           \* this.eventManager is loaded
    listeners,          \* the elements in the document on which eventManager
                        \* holds the DOM listeners of hookEventHandlers
    textCb, annotCb,    \* the layer callbacks are registered with eventManager
    backlinkItemEl,     \* the links whose descriptor holds a backlinkItemEl
    hoverTarget,        \* the element with handlers of hookEventHandlers the
                        \* pointer is over, NoEl when it is over none
    rects,              \* the highlight rectangles attached to an annotation layer
    hovered,            \* the links whose item in the backlinks pane carries
                        \* the class 'hovered-backlink'
    paneShown,          \* the backlinks pane is open and shows the items
    outcome,            \* how the last handler of the highlighter ended: "ok",
                        \* "caught" (notice and console.error), "escaped" (an
                        \* exception left a layer callback), "unload-escaped"
    \* the host: metadata cache and PDF viewer
    cache,              \* the links the metadata cache holds to the viewer's file
    textLayer,          \* page -> pageView.textLayer is there (and the page loaded)
    textDivs,           \* page -> the text divs of its text layer
    annotationLayer,    \* page -> pageView.annotationLayer is there
    \* showChildElOnParentElHover
    hoverInstalled,     \* parentEl carries the listener onParentElMouseOver
    compLoaded,         \* config.component is loaded
    sessions,           \* the hover sessions, one per run of onParentElMouseOver
    pointer,            \* where the pointer is: <<"out", 0>>, <<"parent", 0>> or
                        \* <<"child", k>>, on the child element of session k
    \* onModKeyPress
    modWatchers,        \* the calls whose three listeners are on the document
    modTargetAttached,  \* doc.body.contains(targetEl)
    modCalls,           \* how often callback was invoked
    modEvent            \* the last event the document dispatched to the listeners

\* the backlinks pane
paneVars == <<hovered, paneShown>>

hlVars == <<isEmbed, loaded, file, backlinks, annotationEls, highlightedTexts,
            highlightedAnnotations, emLoaded,
            listeners, textCb, annotCb, outcome,
            backlinkItemEl, hoverTarget, rects, paneVars>>

hostVars == <<cache, textLayer, textDivs, annotationLayer>>

setVars == <<settings, saved, tabShown, rows, options, dropdownShown, tabOps>>

hoverVars == <<hoverInstalled, compLoaded, sessions, pointer>>

modVars == <<modWatchers, modTargetAttached, modCalls, modEvent>>

utilVars == <<hoverVars, modVars>>

vars == <<setVars, hlVars, hostVars, utilVars>>

NameYellow == <<"Y", "e", "l", "l", "o", "w">>

NameRed == <<"R", "e", "d">>

NameBlue == <<"B", "l", "u", "e">>

\* DEFAULT_SETTINGS, the fields the model follows; colors lists the entries
\* of the colors object in the order Object.entries yields them
DefaultSettings ==
    [highlightBacklinks |-> TRUE,
     highlightBacklinksPane |-> TRUE,
     highlightColorSpecifiedOnly |-> FALSE,
     colors |-> << <<NameYellow, "#ffd000">>, <<NameRed, "#EA5252">>, <<NameBlue, "#7b89f4">> >>,
     defaultColor |-> <<>>,
     aliasFormat |-> "",
     zoomInEmbed |-> 0]

(***************************************************************************)
(* The colors object: string keys in insertion order                        *)
(***************************************************************************)

\* name in colors
HasColor(colors, name) == \E i \in 1..Len(colors) : colors[i][1] = name

\* delete colors[name]
DeleteColorKey(colors, name) ==
    LET keep == {i \in 1..Len(colors) : colors[i][1] # name}
        RECURSIVE Pick(_)
        Pick(i) == IF i > Len(colors) THEN <<>>
                   ELSE (IF i \in keep THEN <<colors[i]>> ELSE <<>>) \o Pick(i + 1)
    IN  Pick(1)

\* colors[name] = color: an existing key keeps its place, a new one goes last
SetColorKey(colors, name, color) ==
    IF HasColor(colors, name)
    THEN [i \in 1..Len(colors) |-> IF colors[i][1] = name THEN <<name, color>> ELSE colors[i]]
    ELSE Append(colors, <<name, color>>)

\* plugin.saveSettings(): the settings object is handed to the host's storage
SaveSettings(set) == saved' = set

(***************************************************************************)
(* PDFPlusSettingTab.display                                                *)
(***************************************************************************)

\* the closure of addColorSetting(name, color)
ColorRow(name, color, defaultColor) ==
    [name |-> name, color |-> color, previousColor |-> color,
     isDefault |-> defaultColor = name]

\* the color rows display() adds, one per entry of settings.colors
BuildRows(set) ==
    [i \in 1..Len(set.colors) |->
        ColorRow(set.colors[i][1], set.colors[i][2], set.defaultColor)]

\* the text an option of the default-color dropdown shows
DisplayName(option) == IF option = <<>> THEN <<"Obsidian default">> ELSE option

RECURSIVE AddOptions(_, _, _)
\* the loop of addDropdowenSetting: an option whose display name was used
\* already is not added
AddOptions(values, i, out) ==
    IF i > Len(values) THEN out
    ELSE AddOptions(values, i + 1,
            IF \E k \in 1..Len(out) : out[k].text = DisplayName(values[i]) THEN out
            ELSE Append(out, [value |-> values[i], text |-> DisplayName(values[i])]))

\* the options of the default-color dropdown: '' and the keys of settings.colors
BuildOptions(set) ==
    AddOptions(<<<<>>>> \o [i \in 1..Len(set.colors) |-> set.colors[i][1]], 1, <<>>)

\* display(), for the part of the tab the model follows
Display(set) ==
    /\ tabShown' = TRUE
    /\ rows' = BuildRows(set)
    /\ dropdownShown' = ~set.highlightColorSpecifiedOnly
    /\ options' = IF set.highlightColorSpecifiedOnly THEN <<>> ELSE BuildOptions(set)

\* the sets of links the notes of the vault hold to the viewer's file at one
\* time or another: none, two that share a text div, two on different pages,
\* one whose end index is stale, a colored selection with an annotation
CacheStates == {{}, {1, 2}, {1, 4}, {3, 4}, {2, 5}}

\* highlightedTexts grows with every round whose clearing returned early
MaxHighlightedTexts == 8

Layers == {p \in Pages : textLayer[p]}

AnnotLayers == {p \in Pages : annotationLayer[p]}

\* the fields of the highlighter the methods work on
St ==
    [backlinks |-> backlinks, annotationEls |-> annotationEls,
     highlightedTexts |-> highlightedTexts, textDivs |-> textDivs,
     listeners |-> listeners, emLoaded |-> emLoaded,
     textCb |-> textCb, annotCb |-> annotCb, threw |-> FALSE,
     replaced |-> {}]

\* the fields after a method ran
Commit(s) ==
    /\ Len(s.highlightedTexts) <= MaxHighlightedTexts
    /\ backlinks' = s.backlinks
    /\ annotationEls' = s.annotationEls
    /\ highlightedTexts' = s.highlightedTexts
    /\ textDivs' = s.textDivs
    /\ listeners' = s.listeners
    /\ emLoaded' = s.emLoaded
    /\ textCb' = s.textCb
    /\ annotCb' = s.annotCb
    \* a wrapper span under the pointer is gone with the children of its div
    /\ hoverTarget' = IF /\ hoverTarget.kind = "hl"
                         /\ <<hoverTarget.page, hoverTarget.div>> \in s.replaced
                      THEN NoEl ELSE hoverTarget

\* the state after `new BacklinkHighlighter(plugin, viewer)`: plugin.addChild
\* loaded it, onload ran highlightBacklinks with this.file still null
InitHighlighter ==
    /\ isEmbed \in BOOLEAN
    /\ loaded = TRUE
    /\ file = FALSE
    /\ backlinks = <<>>
    /\ annotationEls = EmptyEls
    /\ highlightedTexts = <<>>
    /\ highlightedAnnotations = {}
    /\ emLoaded = TRUE
    /\ listeners = {}
    /\ textCb = FALSE
    /\ annotCb = FALSE
    /\ outcome = "ok"
    /\ backlinkItemEl = {}
    /\ hoverTarget = NoEl
    /\ rects = {}
    /\ hovered = {}
    /\ paneShown = TRUE

InitHost ==
    /\ cache \in CacheStates
    /\ textLayer = [p \in Pages |-> FALSE]
    /\ textDivs = [p \in Pages |-> FreshDivs(p)]
    /\ annotationLayer = [p \in Pages |-> FALSE]

\* the settings are the defaults and the settings tab is open on them
InitSettings ==
    /\ settings = DefaultSettings
    /\ saved = DefaultSettings
    /\ tabShown = TRUE
    /\ rows = BuildRows(DefaultSettings)
    /\ dropdownShown = TRUE
    /\ options = BuildOptions(DefaultSettings)
    /\ tabOps = 0

\* before showChildElOnParentElHover and onModKeyPress are called
InitUtil ==
    /\ hoverInstalled = FALSE
    /\ compLoaded = TRUE
    /\ sessions = <<>>
    /\ pointer = <<"out", 0>>
    /\ modWatchers = 0
    /\ modTargetAttached = TRUE
    /\ modCalls = 0
    /\ modEvent = "none"

(***************************************************************************)
(* The highlighter's handlers                                               *)
(***************************************************************************)

\* highlightBacklinks(): _highlightBacklinks inside try/catch
HighlightBacklinks ==
    /\ IF ~file \/ isEmbed \/ ~settings.highlightBacklinks
       THEN /\ outcome' = "ok"
            /\ UNCHANGED <<backlinks, annotationEls, highlightedTexts, textDivs, listeners,
                           emLoaded, textCb, annotCb, backlinkItemEl, hoverTarget>>
       ELSE LET s == HighlightRound(St, cache, Layers, AnnotLayers,
                                    settings.highlightColorSpecifiedOnly, loaded)
            IN  /\ Commit(s)
                \* the descriptors setBacklinks made have backlinkItemEl: null
                /\ backlinkItemEl' = {}
                /\ outcome' = IF s.threw THEN "caught" ELSE "ok"

\* the 'resolved' handler onload registered with the metadata cache
MetadataResolved ==
    /\ loaded
    /\ ~isEmbed
    /\ HighlightBacklinks
    /\ UNCHANGED <<isEmbed, loaded, file, highlightedAnnotations, cache, textLayer,
                   annotationLayer, setVars, utilVars, rects, paneVars>>

\* the host assigns the file the viewer shows
SetFile ==
    /\ ~file
    /\ file' = TRUE
    /\ UNCHANGED <<isEmbed, loaded, backlinks, annotationEls, highlightedTexts,
                   highlightedAnnotations, emLoaded, listeners, textCb, annotCb, outcome,
                   hostVars, setVars, utilVars, backlinkItemEl, hoverTarget, rects,
                   paneVars>>

\* the notes of the vault change: the metadata cache holds other links
CacheChange(links) ==
    /\ links # cache
    /\ cache' = links
    /\ UNCHANGED <<textLayer, textDivs, annotationLayer, hlVars, setVars, utilVars>>

\* the viewer renders the text layer of page p; the registered callback runs
\* from the viewer's event bus, outside highlightBacklinks
TextLayerRendered(p) ==
    /\ ~textLayer[p]
    /\ textLayer' = [textLayer EXCEPT ![p] = TRUE]
    /\ IF textCb
       THEN LET s == TextLayerCallback(St, Layers \cup {p},
                                       settings.highlightColorSpecifiedOnly, p)
            IN  /\ Commit(s)
                /\ outcome' = IF s.threw THEN "escaped" ELSE "ok"
       ELSE UNCHANGED <<backlinks, annotationEls, highlightedTexts, textDivs, listeners,
                        emLoaded, textCb, annotCb, outcome, hoverTarget>>
    /\ UNCHANGED <<isEmbed, loaded, file, highlightedAnnotations, cache, annotationLayer,
                   setVars, utilVars, backlinkItemEl, rects, paneVars>>

\* the viewer drops the text layer of a page far from the viewport
TextLayerDestroyed(p) ==
    /\ textLayer[p]
    /\ textLayer' = [textLayer EXCEPT ![p] = FALSE]
    /\ textDivs' = [textDivs EXCEPT ![p] = FreshDivs(p)]
    /\ listeners' = DetachPage(listeners, p)
    /\ annotationEls' = [l \in LinkIds |-> DetachPage(annotationEls[l], p)]
    /\ hoverTarget' = IF DetachPage({hoverTarget}, p) = {} THEN NoEl ELSE hoverTarget
    /\ UNCHANGED <<isEmbed, loaded, file, backlinks, highlightedTexts,
                   highlightedAnnotations, emLoaded, textCb, annotCb, outcome, cache,
                   annotationLayer, setVars, utilVars, backlinkItemEl, rects, paneVars>>

\* the elements of `els` still in the document after the annotation layer of
\* `page` was destroyed
DetachAnnotations(els, page) ==
    {e \in els : ~(e.kind = "annot" /\ e.page = page)}

\* the viewer renders the annotation layer of page p
AnnotationLayerRendered(p) ==
    /\ ~annotationLayer[p]
    /\ annotationLayer' = [annotationLayer EXCEPT ![p] = TRUE]
    /\ IF annotCb
       THEN LET s == AnnotationLayerCallback(St, AnnotLayers \cup {p}, p)
            IN  /\ Commit(s)
                /\ outcome' = IF s.threw THEN "escaped" ELSE "ok"
       ELSE UNCHANGED <<backlinks, annotationEls, highlightedTexts, textDivs, listeners,
                        emLoaded, textCb, annotCb, outcome, hoverTarget>>
    /\ UNCHANGED <<isEmbed, loaded, file, highlightedAnnotations, cache, textLayer,
                   setVars, utilVars, backlinkItemEl, rects, paneVars>>

AnnotationLayerDestroyed(p) ==
    /\ annotationLayer[p]
    /\ annotationLayer' = [annotationLayer EXCEPT ![p] = FALSE]
    /\ listeners' = DetachAnnotations(listeners, p)
    /\ annotationEls' = [l \in LinkIds |-> DetachAnnotations(annotationEls[l], p)]
    /\ hoverTarget' = IF DetachAnnotations({hoverTarget}, p) = {} THEN NoEl ELSE hoverTarget
    \* the rectangles in the layer's div are gone with it
    /\ rects' = {r \in rects : r.page # p}
    /\ UNCHANGED <<isEmbed, loaded, file, backlinks, highlightedTexts,
                   highlightedAnnotations, emLoaded, textCb, annotCb, outcome, cache,
                   textLayer, textDivs, setVars, utilVars, backlinkItemEl, paneVars>>

\* the plugin unloads: the highlighter's children and events are unloaded,
\* then onunload runs
Unload ==
    /\ loaded
    /\ loaded' = FALSE
    /\ LET s == ClearTextHighlight(UnloadEventManager(St), Layers)
       IN  /\ Commit(s)
           /\ outcome' = IF s.threw THEN "unload-escaped" ELSE "ok"
           \* the loop over highlightedAnnotations.keys() calling
           \* clearAnnotationHighlight is reached unless clearTextHighlight threw
           /\ highlightedAnnotations' = IF s.threw THEN highlightedAnnotations ELSE {}
           /\ rects' = IF s.threw THEN rects ELSE rects \ highlightedAnnotations
    /\ UNCHANGED <<isEmbed, file, cache, textLayer, annotationLayer, setVars, utilVars,
                   backlinkItemEl, paneVars>>

\* the onChange handler addToggleSetting installs; the toggle of
\* highlightColorSpecifiedOnly has redisplay() as its extraOnChange
ToggleSetting(name) ==
    /\ tabShown
    /\ settings' = [settings EXCEPT ![name] = ~@]
    /\ SaveSettings(settings')
    /\ IF name = "highlightColorSpecifiedOnly"
       THEN Display(settings')
       ELSE UNCHANGED <<tabShown, rows, options, dropdownShown>>
    /\ UNCHANGED <<tabOps, hlVars, hostVars, utilVars>>

NextHighlighter ==
    \/ MetadataResolved
    \/ SetFile
    \/ \E links \in CacheStates : CacheChange(links)
    \/ \E p \in Pages : TextLayerRendered(p)
    \/ \E p \in Pages : TextLayerDestroyed(p)
    \/ \E p \in Pages : AnnotationLayerRendered(p)
    \/ \E p \in Pages : AnnotationLayerDestroyed(p)
    \/ Unload
    \/ ToggleSetting("highlightColorSpecifiedOnly")

InitHL == InitSettings /\ InitHighlighter /\ InitHost /\ InitUtil

SpecHL == InitHL /\ [][NextHighlighter]_vars

(***************************************************************************)
(* The pointer over the highlighted elements and the backlinks pane         *)
(***************************************************************************)

\* the pointer moves onto e, an element in the document that carries the
\* handlers of hookEventHandlers: the first 'mouseover' handler runs (the
\* second one triggers the host's 'hover-link' and changes nothing here).
\* updateBacklinkItemEl stores the item findBacklinkItemEl finds, and it
\* finds one while the backlinks pane is shown.
HighlightMouseOver(e) ==
    /\ hoverTarget = NoEl
    /\ e \in listeners
    /\ hoverTarget' = e
    /\ IF settings.highlightBacklinksPane
       THEN /\ backlinkItemEl' = IF paneShown THEN backlinkItemEl \cup {e.owner}
                                 ELSE backlinkItemEl
            /\ hovered' = IF e.owner \in backlinkItemEl' THEN hovered \cup {e.owner}
                          ELSE hovered
       ELSE UNCHANGED <<backlinkItemEl, hovered>>
    /\ UNCHANGED <<isEmbed, loaded, file, backlinks, annotationEls, highlightedTexts,
                   highlightedAnnotations, emLoaded, listeners, textCb, annotCb, outcome,
                   rects, paneShown, hostVars, setVars, utilVars>>

\* the pointer leaves the element it is over; the 'mouseout' handler runs if
\* eventManager still holds the element's handlers
HighlightMouseOut ==
    /\ hoverTarget # NoEl
    /\ hoverTarget' = NoEl
    /\ hovered' = IF hoverTarget \in listeners /\ hoverTarget.owner \in backlinkItemEl
                  THEN hovered \ {hoverTarget.owner}
                  ELSE hovered
    /\ UNCHANGED <<isEmbed, loaded, file, backlinks, annotationEls, highlightedTexts,
                   highlightedAnnotations, emLoaded, listeners, textCb, annotCb, outcome,
                   backlinkItemEl, rects, paneShown, hostVars, setVars, utilVars>>

\* the user opens or closes the backlinks pane
PaneToggled ==
    /\ paneShown' = ~paneShown
    /\ UNCHANGED <<isEmbed, loaded, file, backlinks, annotationEls, highlightedTexts,
                   highlightedAnnotations, emLoaded, listeners, textCb, annotCb, outcome,
                   backlinkItemEl, hoverTarget, rects, hovered, hostVars, setVars, utilVars>>

\* every element a backlink can be highlighted with
AllElements ==
    {Element(kind, p, div, owner) :
        kind \in {"hl", "mid", "annot"}, p \in Pages, div \in 0..2, owner \in LinkIds}

NextPane ==
    \/ MetadataResolved
    \/ SetFile
    \/ \E p \in Pages : TextLayerRendered(p)
    \/ \E p \in Pages : AnnotationLayerRendered(p)
    \/ \E e \in AllElements : HighlightMouseOver(e)
    \/ HighlightMouseOut
    \/ PaneToggled
    \/ ToggleSetting("highlightBacklinksPane")

\* a viewer that shows a file with a selection link and an annotation link
InitPane ==
    /\ InitHL
    /\ ~isEmbed
    /\ cache = {2, 5}

SpecPane == InitPane /\ [][NextPane]_vars

\* C12: after the pointer has left the highlighted element no item of the
\* backlinks pane keeps the class 'hovered-backlink', also when a 'resolved'
\* event re-ran highlightBacklinks between the mouseover and the mouseout.
C12_ClassGoneAfterMouseOut == [][HighlightMouseOut => hovered' = {}]_vars

(***************************************************************************)
(* highlightAnnotation and clearAnnotationHighlight                         *)
(***************************************************************************)

\* the most rectangles attached at a time
MaxRects == 2

\* the ids the two methods are called with: one a layer holds, one no layer holds
CalledIds == {<<"7", "R">>, <<"0", "R">>}

\* a rectangle element: createDiv makes a new element at every call
Rect(id, page, n) == [id |-> id, page |-> page, n |-> n]

FreshRect(id, page) ==
    Rect(id, page, CHOOSE n \in 1..(MaxRects + 2) :
                      /\ \A r \in rects \cup highlightedAnnotations : r.n # n
                      /\ \A m \in 1..(n - 1) :
                            \E r \in rects \cup highlightedAnnotations : r.n = m)

\* highlightAnnotation(pageNumber, id)
HighlightAnnotation(pageNumber, id) ==
    /\ Cardinality(rects \cup highlightedAnnotations) < MaxRects
    /\ IF /\ ~(pageNumber < 1 \/ pageNumber > NumPages)
          /\ annotationLayer[pageNumber]
          /\ id \in PageAnnotations(pageNumber)
       THEN LET rectEl == FreshRect(id, pageNumber)
            IN  /\ rects' = rects \cup {rectEl}
                \* Map.set replaces the value the id had
                /\ highlightedAnnotations' =
                       {r \in highlightedAnnotations : r.id # id} \cup {rectEl}
       ELSE UNCHANGED <<rects, highlightedAnnotations>>
    /\ UNCHANGED <<isEmbed, loaded, file, backlinks, annotationEls, highlightedTexts,
                   emLoaded, listeners, textCb, annotCb, outcome, backlinkItemEl,
                   hoverTarget, paneVars, hostVars, setVars, utilVars>>

\* clearAnnotationHighlight(id)
ClearAnnotationHighlight(id) ==
    /\ LET mapped == {r \in highlightedAnnotations : r.id = id}
       IN  /\ rects' = rects \ mapped
           /\ highlightedAnnotations' = highlightedAnnotations \ mapped
    /\ UNCHANGED <<isEmbed, loaded, file, backlinks, annotationEls, highlightedTexts,
                   emLoaded, listeners, textCb, annotCb, outcome, backlinkItemEl,
                   hoverTarget, paneVars, hostVars, setVars, utilVars>>

NextAnnotation ==
    \/ \E pageNumber \in 0..(NumPages + 1), id \in CalledIds :
          HighlightAnnotation(pageNumber, id)
    \/ \E id \in CalledIds : ClearAnnotationHighlight(id)
    \/ \E p \in Pages : AnnotationLayerRendered(p)
    \/ \E p \in Pages : AnnotationLayerDestroyed(p)
    \/ MetadataResolved
    \/ SetFile
    \/ Unload

SpecAnnotation == InitPane /\ [][NextAnnotation]_vars

\* C13: every rectangle still attached to an annotation layer is the value
\* highlightedAnnotations maps for its id, whatever calls of highlightAnnotation
\* and clearAnnotationHighlight came before (so that clearAnnotationHighlight(id)
\* leaves no rectangle of id attached).
C13_RectsAreMapped == rects \subseteq highlightedAnnotations

\* the highlighter while the notes change, the setting highlightBacklinks is
\* switched and the layers are rendered
NextResolved ==
    \/ MetadataResolved
    \/ SetFile
    \/ \E links \in CacheStates : CacheChange(links)
    \/ \E p \in Pages : TextLayerRendered(p)
    \/ \E p \in Pages : AnnotationLayerRendered(p)
    \/ ToggleSetting("highlightBacklinks")

SpecResolved == InitHL /\ [][NextResolved]_vars

(***************************************************************************)
(* The handlers of the settings tab                                         *)
(***************************************************************************)

NameRedLower == <<"r", "e", "d">>

NameGreen == <<"G", "r", "e", "e", "n">>

\* the names typed into the text field of a color row
TypedNames == {<<>>, NameRed, NameRedLower, NameGreen}

\* the colors chosen in the color picker of a color row
PickedColors == {"#000000"}

\* the texts typed into the text field of aliasFormat
TypedTexts == {"", "{{page}}"}

\* the limits of the slider of zoomInEmbed
ZoomInEmbedMin == 0

ZoomInEmbedMax == 5

\* the number of color rows the model follows
MaxColors == 4

\* the number of times the tab is shown, hidden or edited
MaxTabOps == 3

\* the tab's handlers leave the highlighters, the viewer and the utilities alone
TabOnly ==
    /\ tabOps < MaxTabOps
    /\ tabOps' = tabOps + 1
    /\ UNCHANGED <<hlVars, hostVars, utilVars>>

\* the host opens the tab: display()
DisplayTab ==
    /\ ~tabShown
    /\ Display(settings)
    /\ UNCHANGED <<settings, saved>>
    /\ TabOnly

\* hide(): the tab is emptied
HideTab ==
    /\ tabShown
    /\ tabShown' = FALSE
    /\ rows' = <<>>
    /\ options' = <<>>
    /\ dropdownShown' = FALSE
    /\ UNCHANGED <<settings, saved>>
    /\ TabOnly

\* the onClick handler of the 'Add a new color' button
AddColor ==
    /\ tabShown
    /\ HasColor(settings.colors, <<>>) \/ Len(settings.colors) < MaxColors
    /\ settings' = [settings EXCEPT !.colors = SetColorKey(@, <<>>, "#")]
    /\ Display(settings')
    /\ UNCHANGED saved
    /\ TabOnly

\* optionEl.value = newName; optionEl.textContent = newName, on the first
\* option querySelector finds with the value name
RenameOption(opts, name, newName) ==
    LET found == {k \in 1..Len(opts) : opts[k].value = name}
    IN  IF found = {} THEN opts
        ELSE LET first == CHOOSE k \in found : \A j \in found : k <= j
             IN  [opts EXCEPT ![first] = [value |-> newName, text |-> newName]]

\* the onChange handler of the text field of color row i
RenameColor(i, newName) ==
    /\ tabShown
    /\ i \in 1..Len(rows)
    /\ newName # rows[i].name
    /\ IF HasColor(settings.colors, newName)
       THEN UNCHANGED <<settings, saved, tabShown, rows, options, dropdownShown>>
       ELSE /\ settings' =
                [settings EXCEPT
                    !.colors = SetColorKey(DeleteColorKey(@, rows[i].name),
                                           newName, rows[i].color),
                    !.defaultColor = IF rows[i].isDefault THEN newName ELSE @]
            /\ options' = RenameOption(options, rows[i].name, newName)
            /\ rows' = [rows EXCEPT ![i].name = newName]
            /\ SaveSettings(settings')
            /\ UNCHANGED <<tabShown, dropdownShown>>
    /\ TabOnly

\* the onChange handler of the color picker of color row i
PickColor(i, newColor) ==
    /\ tabShown
    /\ i \in 1..Len(rows)
    /\ newColor # rows[i].color
    /\ rows' = [rows EXCEPT ![i].previousColor = rows[i].color, ![i].color = newColor]
    /\ settings' = [settings EXCEPT !.colors = SetColorKey(@, rows[i].name, newColor)]
    /\ SaveSettings(settings')
    /\ UNCHANGED <<tabShown, options, dropdownShown>>
    /\ TabOnly

\* the onClick handler of the 'Return to previous color' button of color row i
ResetColor(i) ==
    /\ tabShown
    /\ i \in 1..Len(rows)
    /\ settings' = [settings EXCEPT
                       !.colors = SetColorKey(@, rows[i].name, rows[i].previousColor)]
    /\ SaveSettings(settings')
    /\ Display(settings')
    /\ TabOnly

\* the onClick handler of the 'Delete' button of color row i
DeleteColor(i) ==
    /\ tabShown
    /\ i \in 1..Len(rows)
    /\ settings' = [settings EXCEPT !.colors = DeleteColorKey(@, rows[i].name)]
    /\ SaveSettings(settings')
    /\ Display(settings')
    /\ TabOnly

\* the onChange handler addDropdowenSetting installs on the default-color
\* dropdown, for the option k the user selects
SelectDefaultColor(k) ==
    /\ tabShown
    /\ dropdownShown
    /\ k \in 1..Len(options)
    /\ settings' = [settings EXCEPT !.defaultColor = options[k].value]
    /\ SaveSettings(settings')
    /\ UNCHANGED <<tabShown, rows, options, dropdownShown>>
    /\ TabOnly

\* the onChange handler addTextSetting installs, for aliasFormat
TextSetting(value) ==
    /\ tabShown
    /\ value # settings.aliasFormat
    /\ settings' = [settings EXCEPT !.aliasFormat = value]
    /\ SaveSettings(settings')
    /\ UNCHANGED <<tabShown, rows, options, dropdownShown>>
    /\ TabOnly

\* the onChange handler addSliderSetting installs, for zoomInEmbed
SliderSetting(value) ==
    /\ tabShown
    /\ value # settings.zoomInEmbed
    /\ settings' = [settings EXCEPT !.zoomInEmbed = value]
    /\ SaveSettings(settings')
    /\ UNCHANGED <<tabShown, rows, options, dropdownShown>>
    /\ TabOnly

NextSettings ==
    \/ DisplayTab
    \/ HideTab
    \/ AddColor
    \/ \E i \in 1..MaxColors, newName \in TypedNames : RenameColor(i, newName)
    \/ \E i \in 1..MaxColors, newColor \in PickedColors : PickColor(i, newColor)
    \/ \E i \in 1..MaxColors : ResetColor(i)
    \/ \E i \in 1..MaxColors : DeleteColor(i)
    \/ \E k \in 1..(MaxColors + 1) : SelectDefaultColor(k)
    \/ \E name \in {"highlightBacklinks", "highlightColorSpecifiedOnly"} : ToggleSetting(name)
    \/ \E value \in TypedTexts : TextSetting(value)
    \/ \E value \in ZoomInEmbedMin..ZoomInEmbedMax : SliderSetting(value)

\* the tab is opened while no PDF is shown
InitTab ==
    /\ InitHL
    /\ ~isEmbed
    /\ cache = {}

SpecSettings == InitTab /\ [][NextSettings]_vars

\* C8: every change a handler of the settings tab makes to the settings has
\* been handed to saveSettings when the handler is done, so the stored
\* settings are the settings in memory
C8_MutationsPersisted == saved = settings

\* the names registered in settings.colors
ColorNames(set) == {set.colors[i][1] : i \in 1..Len(set.colors)}

\* C11: settings.colors never holds two names that are equal when compared
\* ignoring case.
C11_NamesCaseInsensitive ==
    \A i, j \in 1..Len(settings.colors) :
        ToLowerCase(settings.colors[i][1]) = ToLowerCase(settings.colors[j][1]) => i = j

\* C14: a rename changes settings.defaultColor only if the renamed color is
\* the default color at the moment of the rename, and defaultColor then
\* becomes the new name; naming a freshly added color (its name is still
\* empty) and renaming a color that is not the default now leave defaultColor
\* unchanged.
C14_DefaultFollowsRename ==
    [][\A i \in 1..MaxColors, newName \in TypedNames :
          RenameColor(i, newName) =>
              settings'.defaultColor =
                  IF /\ ~HasColor(settings.colors, newName)
                     /\ rows[i].name # <<>>
                     /\ settings.defaultColor = rows[i].name
                  THEN newName
                  ELSE settings.defaultColor]_vars

\* C15: settings.defaultColor is either '' or the name of a color currently
\* present in settings.colors.
C15_DefaultColorValid ==
    settings.defaultColor = <<>> \/ HasColor(settings.colors, settings.defaultColor)

\* the options of the default-color dropdown that carry the value v
OptionsWithValue(v) == {k \in 1..Len(options) : options[k].value = v}

\* C16: the options of the default-color dropdown, when it is displayed, are
\* exactly the empty-valued 'Obsidian default' option plus one option per
\* name registered in settings.colors.  (A color whose name is still empty
\* is not asked to have an option of its own here.)
C16_DropdownOptions ==
    dropdownShown =>
        /\ Cardinality(OptionsWithValue(<<>>)) = 1
        /\ \A k \in OptionsWithValue(<<>>) : options[k].text = DisplayName(<<>>)
        /\ \A name \in ColorNames(settings) \ {<<>>} :
              Cardinality(OptionsWithValue(name)) = 1
        /\ \A k \in 1..Len(options) : options[k].value \in ColorNames(settings) \cup {<<>>}

(***************************************************************************)
(* setBacklinks on its own, over every set of links of the link universe    *)
(***************************************************************************)

\* setBacklinks(file) is called on a highlighter whose map is still empty
SetBacklinksCall ==
    /\ backlinks = <<>>
    /\ backlinks' = SetBacklinks(backlinks, cache)
    /\ annotationEls' = EmptyEls
    /\ UNCHANGED <<isEmbed, loaded, file, highlightedTexts, highlightedAnnotations, emLoaded,
                   listeners, textCb, annotCb, outcome, hostVars, setVars, utilVars,
                   backlinkItemEl, hoverTarget, rects, paneVars>>

InitParse ==
    /\ InitSettings
    /\ InitUtil
    /\ InitHighlighter
    /\ cache \in SUBSET LinkIds
    /\ textLayer = [p \in Pages |-> FALSE]
    /\ textDivs = [p \in Pages |-> FreshDivs(p)]
    /\ annotationLayer = [p \in Pages |-> FALSE]

SpecParse == InitParse /\ [][SetBacklinksCall]_vars

(***************************************************************************)
(* What the link texts of the universe say, read off the texts by hand      *)
(***************************************************************************)

RECURSIVE CommaCount(_, _)
CommaCount(s, i) ==
    IF i > Len(s) THEN 0 ELSE (IF s[i] = "," THEN 1 ELSE 0) + CommaCount(s, i + 1)

\* the subpath has `page` and `selection`, and `selection` has four fields
HasFourFieldSelection(id) ==
    /\ \E i \in 1..Len(Links[id]) : Links[id][i][1] = "page"
    /\ \E i \in 1..Len(Links[id]) :
          /\ Links[id][i][1] = "selection"
          /\ \A j \in 1..(i - 1) : Links[id][j][1] # "selection"
          /\ CommaCount(Links[id][i][2], 1) = 3

\* page, beginIndex, beginOffset, endIndex, endOffset and color of the links
\* with a four-field selection; a field that is no number reads as NaN, one
\* that starts with digits as those digits
ExpectedSelection ==
    [id \in {1, 2, 3, 4, 6, 9} |->
        CASE id = 1 -> <<1, 0, 0, 0, 2, Undefined>>
          [] id = 2 -> <<1, 0, 1, 1, 2, <<"R", "e", "d">>>>
          [] id = 3 -> <<1, 1, 0, 5, 1, Undefined>>
          [] id = 4 -> <<2, 0, 0, 0, 1, Undefined>>
          [] id = 6 -> <<2, 0, 0, 0, 1, <<"R", "e", "d">>>>
          [] id = 9 -> <<NaN, 1, NaN, 0, 12, <<>>>>]

\* page and annotation id of the links with `page` and `annotation`
ExpectedAnnotation ==
    [id \in {5, 6, 10} |->
        CASE id = 5 -> <<1, <<"7", "R">>>>
          [] id = 6 -> <<2, <<"7", "R">>>>
          [] id = 10 -> <<2, <<"9", "R">>>>]

\* the descriptors of one kind in the map bl, as <<page key, descriptor>>
Descriptors(bl, kind) ==
    UNION {{<<pg, bl[pg][kind][k]>> : k \in 1..Len(bl[pg][kind])} : pg \in DOMAIN bl}

\* the number of descriptors of one kind in bl
DescriptorCount(bl, kind) ==
    LET pgs == DOMAIN bl
        RECURSIVE Sum(_)
        Sum(S) == IF S = {} THEN 0
                  ELSE LET x == CHOOSE x \in S : TRUE
                       IN  Len(bl[x][kind]) + Sum(S \ {x})
    IN  Sum(pgs)

IsExpectedSelection(pd, id) ==
    /\ pd[1] = ExpectedSelection[id][1]
    /\ pd[2].type = "selection"
    /\ pd[2].link = id
    /\ pd[2].pageNumber = ExpectedSelection[id][1]
    /\ pd[2].beginIndex = ExpectedSelection[id][2]
    /\ pd[2].beginOffset = ExpectedSelection[id][3]
    /\ pd[2].endIndex = ExpectedSelection[id][4]
    /\ pd[2].endOffset = ExpectedSelection[id][5]
    /\ pd[2].colorName = ExpectedSelection[id][6]

IsExpectedAnnotation(pd, id) ==
    /\ pd[1] = ExpectedAnnotation[id][1]
    /\ pd[2].type = "annotation"
    /\ pd[2].link = id
    /\ pd[2].pageNumber = ExpectedAnnotation[id][1]
    /\ pd[2].id = ExpectedAnnotation[id][2]

\* the selection descriptors of the map are those of the links of the cache
\* with a four-field selection, one each, with the values the link text gives
SelectionsAsLinked ==
    /\ \A id \in LinkIds :
          (id \in cache /\ HasFourFieldSelection(id))
              <=> \E pd \in Descriptors(backlinks, "selection") : pd[2].link = id
    /\ \A pd \in Descriptors(backlinks, "selection") : IsExpectedSelection(pd, pd[2].link)
    /\ DescriptorCount(backlinks, "selection")
          = Cardinality({id \in cache : HasFourFieldSelection(id)})

\* C1: setBacklinks records a selection descriptor for a backlink exactly when
\* its subpath has `page` and `selection` and `selection` splits on commas into
\* four fields; the descriptor is stored under its page number with
\* beginIndex, beginOffset, endIndex, endOffset the four fields in order and
\* colorName the `color` parameter (absent when there is none).
C1_SelectionRecordedExactly == [][SetBacklinksCall => SelectionsAsLinked']_vars

\* C1 witness: a cache with a plain selection, one with a color, one whose
\* fields are not numbers and one with three fields has been read
C1_Witness ==
    /\ {1, 2, 7, 9} \subseteq cache
    /\ \E pd \in Descriptors(backlinks, "selection") : pd[2].link = 9 /\ pd[1] = NaN
    /\ \E pd \in Descriptors(backlinks, "selection") :
          pd[2].link = 2 /\ pd[2].colorName = <<"R", "e", "d">>
    /\ \E pd \in Descriptors(backlinks, "selection") :
          pd[2].link = 1 /\ pd[2].colorName = Undefined

\* the subpath has the parameter `key`
Carries(id, key) == \E i \in 1..Len(Links[id]) : Links[id][i][1] = key

\* every link of the cache in `ids` has its annotation descriptor in the map
AnnotationsRecorded(ids) ==
    \A id \in ids \cap cache :
        \E pd \in Descriptors(backlinks, "annotation") : IsExpectedAnnotation(pd, id)

\* C2 as stated: for every backlink whose subpath carries `page` and
\* `annotation=id`, setBacklinks records an annotation descriptor with that id
\* under that page number, whatever other parameters the link text carries.
C2_Original ==
    [][SetBacklinksCall =>
          AnnotationsRecorded({id \in LinkIds : Carries(id, "page") /\ Carries(id, "annotation")})']_vars

\* C2 amended: for every backlink whose subpath carries `page` and
\* `annotation=id` and no `selection` parameter, setBacklinks records an
\* annotation descriptor with that id under that page number, whatever other
\* parameters the link text carries.
C2_AnnotationRecordedWithoutSelection ==
    [][SetBacklinksCall =>
          AnnotationsRecorded({id \in LinkIds : /\ Carries(id, "page")
                                                /\ Carries(id, "annotation")
                                                /\ ~Carries(id, "selection")})']_vars

\* C2 witness: annotation links with and without a color parameter have been
\* recorded, next to a link that carries a selection as well
C2_Witness ==
    /\ {5, 6, 10} \subseteq cache
    /\ \E pd \in Descriptors(backlinks, "annotation") : pd[2].link = 5
    /\ \E pd \in Descriptors(backlinks, "annotation") : pd[2].link = 10
    /\ \E pd \in Descriptors(backlinks, "selection") : pd[2].link = 6

\* the annotation descriptors of the map are those of the links of the cache
\* with `page` and `annotation` and no `selection`, one each
AnnotationsAsLinked ==
    LET ids == {id \in cache : /\ Carries(id, "page")
                               /\ Carries(id, "annotation")
                               /\ ~Carries(id, "selection")}
    IN  /\ \A id \in LinkIds :
              id \in ids <=> \E pd \in Descriptors(backlinks, "annotation") : pd[2].link = id
        /\ \A pd \in Descriptors(backlinks, "annotation") : IsExpectedAnnotation(pd, pd[2].link)
        /\ DescriptorCount(backlinks, "annotation") = Cardinality(ids)

\* the map holds the descriptors of the links the cache holds now, no other
BacklinksAsLinked == SelectionsAsLinked /\ AnnotationsAsLinked

\* C3 as stated: on every metadata 'resolved' event received by a loaded
\* highlighter the per-page backlink map is rebuilt: once the event has been
\* handled, backlinks holds exactly the descriptors derived from the cache's
\* current backlinks of the viewer's file.
C3_Original == [][MetadataResolved => BacklinksAsLinked']_vars

\* C3 amended: on every metadata 'resolved' event received by a loaded
\* highlighter whose file is set, while the setting highlightBacklinks is
\* enabled, the per-page backlink map is rebuilt: once the event has been
\* handled, backlinks holds exactly the descriptors derived from the cache's
\* current backlinks of the viewer's file, with none left over.  (The handler
\* leaves the cache and the layers as they are; saying so first spares
\* computing the handler for the steps of the host.)
C3_RebuiltOnResolved ==
    [][(/\ file /\ settings.highlightBacklinks
        /\ cache' = cache /\ textLayer' = textLayer /\ annotationLayer' = annotationLayer
        /\ MetadataResolved) => BacklinksAsLinked']_vars

\* C3 witness: the cache holds a selection link and an annotation link, the
\* map holds their descriptors and no other, and both are highlighted
C3_Witness ==
    /\ loaded /\ file /\ settings.highlightBacklinks
    /\ cache = {2, 5}
    /\ BacklinksAsLinked
    /\ highlightedTexts # <<>>
    /\ \E e \in listeners : e.kind = "annot"

(***************************************************************************)
(* Highlighting                                                            *)
(***************************************************************************)

\* the selection descriptors of the map, whatever their page key
SelectionBacklinks == {pd[2] : pd \in Descriptors(backlinks, "selection")}

\* a selection whose beginIndex or endIndex is no index of the text divs of
\* its page
OutOfRange(d) ==
    /\ d.pageNumber \in Pages
    /\ \/ d.beginIndex < 0 \/ d.beginIndex >= DivCount(d.pageNumber)
       \/ d.endIndex < 0 \/ d.endIndex >= DivCount(d.pageNumber)

\* the links whose selection is out of range on their page
OutOfRangeLinks == {id \in DOMAIN ExpectedSelection :
                       LET e == ExpectedSelection[id]
                       IN  /\ e[1] \in Pages
                           /\ \/ e[2] < 0 \/ e[2] >= DivCount(e[1])
                              \/ e[4] < 0 \/ e[4] >= DivCount(e[1])}

\* the links whose highlight the text layer of page p shows: a wrapper span
\* of theirs in a text div, or a text div carrying their highlight class
ShownOn(p) ==
    UNION {{textDivs[p][i].children[k].owner :
              k \in {j \in 1..Len(textDivs[p][i].children) : textDivs[p][i].children[j].hl}}
           \cup textDivs[p][i].mid : i \in 1..Len(textDivs[p])}

\* C4: every DOM mutation of highlightText is guarded by a bounds check: for a
\* backlink whose beginIndex or endIndex lies outside the page's textDivs,
\* highlightText accesses no out-of-range element (no TypeError comes of it)
\* and mutates nothing (no highlight of the backlink in the text layer, no
\* entry of highlightedTexts beyond the text divs).
C4_BoundsChecked ==
    /\ outcome = "ok"
    /\ \A p \in Pages : ShownOn(p) \cap OutOfRangeLinks = {}
    /\ \A i \in 1..Len(highlightedTexts) :
          highlightedTexts[i][2] >= 0 /\ highlightedTexts[i][2] < DivCount(highlightedTexts[i][1])

\* C5: a failure raised while highlighting backlinks, also one raised inside
\* the text-layer-ready and annotation-layer-ready callbacks, is caught by
\* highlightBacklinks and never propagates out of the highlighter.
C5_FailuresCaught == outcome # "escaped"

\* a text div as the renderer made it: its item's string in one text node, no
\* highlight class
Restored(div) == div.children = <<TextNode(Str)>> /\ TextContent(div) = Str /\ div.mid = {}

\* C7: after onunload, highlightedTexts is empty, highlightedAnnotations is
\* empty, and every text div the highlighter had modified shows its original
\* text again.
C7_ClearedOnUnload ==
    ~loaded =>
        /\ highlightedTexts = <<>>
        /\ highlightedAnnotations = {}
        /\ \A p \in Pages : \A i \in 1..Len(textDivs[p]) : Restored(textDivs[p][i])

\* the text divs highlightedTexts records, as <<page, index>>
RecordedDivs == {highlightedTexts[k] : k \in 1..Len(highlightedTexts)}

\* C17: whichever pages have a text layer, a call of clearTextHighlight that
\* returns leaves highlightedTexts empty and every text div it recorded
\* restored to its original text, so that the entries of one highlight round
\* are gone before the next round adds its own.
C17_ClearLeavesNothing ==
    LET s == ClearTextHighlight(St, Layers)
    IN  ~s.threw =>
            /\ s.highlightedTexts = <<>>
            /\ \A d \in RecordedDivs :
                  (d[1] \in Pages /\ InRange(s.textDivs[d[1]], d[2]))
                      => Restored(s.textDivs[d[1]][d[2] + 1])

\* the links whose text carries a color name
ColoredLinks == {id \in LinkIds :
                    \E i \in 1..Len(Links[id]) :
                        Links[id][i][1] = "color" /\ Links[id][i][2] # <<>>}

\* C9: with highlightColorSpecifiedOnly enabled, no highlight element is
\* created and no handler is hooked for a selection backlink without a
\* colorName: no step taken with the setting enabled adds a highlight or a
\* hooked element of a link without a color.
C9_ColorlessNotHighlighted ==
    [][settings.highlightColorSpecifiedOnly =>
          /\ \A p \in Pages : (ShownOn(p) \ ColoredLinks)' \subseteq (ShownOn(p) \ ColoredLinks)
          /\ {e \in listeners : e.kind # "annot" /\ e.owner \notin ColoredLinks}'
                \subseteq {e \in listeners : e.kind # "annot" /\ e.owner \notin ColoredLinks}]_vars

\* C9 witness: with the setting enabled, page 1 shows the highlight of the
\* colored link 2 and none of link 1, which has no color and the same page
C9_Witness ==
    /\ settings.highlightColorSpecifiedOnly
    /\ textLayer[1]
    /\ 1 \in DOMAIN backlinks
    /\ {d.link : d \in SelectionBacklinks} = {1, 2}
    /\ ShownOn(1) = {2}
    /\ {e.owner : e \in listeners} = {2}
    /\ highlightedTexts # <<>>

\* every in-range selection backlink of page p shows a highlight of its own
AllHighlighted(p) ==
    \A d \in SelectionBacklinks :
        (d.pageNumber = p /\ ~OutOfRange(d)) => d.link \in ShownOn(p)

\* C10: with highlightColorSpecifiedOnly disabled, once a page's
\* text-layer-ready callback has run, every selection backlink of that page
\* with in-range indices has a highlight element of its own in the text
\* layer, also when two backlinks touch the same text div.
C10_AllHighlighted ==
    [][\A p \in Pages :
          (TextLayerRendered(p) /\ textCb /\ ~settings.highlightColorSpecifiedOnly)
              => AllHighlighted(p)']_vars

(***************************************************************************)
(* showChildElOnParentElHover                                               *)
(***************************************************************************)

\* hover sessions, pending check timers of a session and mouseout listeners
\* on a child that the model follows
MaxSessions == 2

MaxTimers == 2

MaxChildOuts == 2

\* what one run of onParentElMouseOver sets up: the two flags, the session's
\* Component (active: loaded, with its listeners and its child element), the
\* check timers not yet expired, and the mouseout listeners on the child
NewSession(hasChild) ==
    [parentHovered |-> TRUE, childHovered |-> FALSE, active |-> TRUE,
     timers |-> 0, hasChild |-> hasChild, childOuts |-> 0]

\* showChildElOnParentElHover(config): parentEl.addEventListener('mouseover', ...)
ShowChildElOnParentElHover ==
    /\ ~hoverInstalled
    /\ hoverInstalled' = TRUE
    /\ UNCHANGED <<compLoaded, sessions, pointer, modVars, setVars, hlVars, hostVars>>

\* onParentMouseOut of every session whose Component still holds it
ParentMouseOut(ss) ==
    [k \in 1..Len(ss) |->
        IF ss[k].active
        THEN [ss[k] EXCEPT !.parentHovered = FALSE, !.timers = @ + 1]
        ELSE ss[k]]

\* the onChildMouseOut listeners of session k, one per earlier mouseover
ChildMouseOut(ss, k) ==
    IF ss[k].active /\ ss[k].childOuts > 0
    THEN [ss EXCEPT ![k].childHovered = FALSE, ![k].timers = @ + ss[k].childOuts]
    ELSE ss

\* the mouseover listener on the child of session k
ChildMouseOver(ss, k) ==
    IF ss[k].active
    THEN [ss EXCEPT ![k].childHovered = TRUE, ![k].childOuts = @ + 1]
    ELSE ss

\* the places the pointer can be: outside, on parentEl, or on the child
\* element of a session that is still in the document
Places ==
    {<<"out", 0>>, <<"parent", 0>>} \cup
    {<<"child", k>> : k \in {j \in 1..Len(sessions) : sessions[j].active /\ sessions[j].hasChild}}

\* the pointer moves from one place to another: mouseout on the place left,
\* then mouseover on the place entered, both from outside the element
PointerMoves(to, hasChild) ==
    /\ to \in Places
    /\ to # pointer
    /\ LET left == IF pointer[1] = "parent" THEN ParentMouseOut(sessions)
                   ELSE IF pointer[1] = "out" THEN sessions
                   ELSE ChildMouseOut(sessions, pointer[2])
           entered == IF to[1] = "parent"
                      THEN (IF hoverInstalled THEN Append(left, NewSession(hasChild)) ELSE left)
                      ELSE IF to[1] = "out" THEN left
                      ELSE ChildMouseOver(left, to[2])
       IN  /\ Len(entered) <= MaxSessions
           /\ \A k \in 1..Len(entered) :
                 entered[k].timers <= MaxTimers /\ entered[k].childOuts <= MaxChildOuts
           /\ sessions' = entered
    /\ pointer' = to
    /\ UNCHANGED <<hoverInstalled, compLoaded, modVars, setVars, hlVars, hostVars>>

\* a check timer of session k expires: the session's Component is unloaded
\* when neither flag is set, which removes the child and the listeners
TimerFires(k) ==
    /\ k \in 1..Len(sessions)
    /\ sessions[k].timers > 0
    /\ LET unload == ~sessions[k].parentHovered /\ ~sessions[k].childHovered
       IN  /\ sessions' = [sessions EXCEPT ![k].timers = @ - 1,
                                           ![k].active = IF unload THEN FALSE ELSE @]
           /\ pointer' = IF unload /\ pointer = <<"child", k>> THEN <<"out", 0>> ELSE pointer
    /\ UNCHANGED <<hoverInstalled, compLoaded, modVars, setVars, hlVars, hostVars>>

\* config.component is unloaded: the Components of the sessions are its
\* children and are unloaded with it
UnloadComponent ==
    /\ compLoaded
    /\ compLoaded' = FALSE
    /\ sessions' = [k \in 1..Len(sessions) |-> [sessions[k] EXCEPT !.active = FALSE]]
    /\ pointer' = IF pointer[1] = "child" THEN <<"out", 0>> ELSE pointer
    /\ UNCHANGED <<hoverInstalled, modVars, setVars, hlVars, hostVars>>

\* the pointer moves between the window, parentEl and the child elements,
\* the check timers expire, config.component may be unloaded
NextHover ==
    \/ ShowChildElOnParentElHover
    \/ \E to \in {<<"out", 0>>, <<"parent", 0>>} \cup {<<"child", k>> : k \in 1..MaxSessions},
          hasChild \in BOOLEAN : PointerMoves(to, hasChild)
    \/ \E k \in 1..MaxSessions : TimerFires(k)
    \/ UnloadComponent

SpecHover == InitPane /\ [][NextHover]_vars

\* session k's child element is taken out of the document by this step
ChildRemoved(k) ==
    /\ k <= Len(sessions)
    /\ sessions[k].hasChild
    /\ sessions[k].active
    /\ ~sessions'[k].active

\* C18: as long as config.component is not unloaded, a child element is
\* removed only by a check timer of its session that finds both hover flags
\* false when it expires, and never while the pointer is over parentEl or over
\* that child.
C18_RemovedOnlyWhenIdle ==
    [][\A k \in 1..MaxSessions :
          (compLoaded' = compLoaded /\ ChildRemoved(k)) =>
              /\ TimerFires(k)
              /\ ~sessions[k].parentHovered /\ ~sessions[k].childHovered
              /\ pointer # <<"parent", 0>> /\ pointer # <<"child", k>>]_vars

(***************************************************************************)
(* onModKeyPress                                                           *)
(***************************************************************************)

MaxModWatchers == 3

MaxModCalls == 4

\* onModKeyPress(evt, targetEl, callback): the callback at once when evt has
\* the modifier, the three listeners on the document otherwise
OnModKeyPress(mod) ==
    /\ IF mod
       THEN /\ modCalls < MaxModCalls
            /\ modCalls' = modCalls + 1
            /\ UNCHANGED modWatchers
       ELSE /\ modWatchers < MaxModWatchers
            /\ modWatchers' = modWatchers + 1
            /\ UNCHANGED modCalls
    /\ modEvent' = "none"
    /\ UNCHANGED <<modTargetAttached, hoverVars, setVars, hlVars, hostVars>>

\* the document dispatches 'keydown': onKeyDown of every call that is watching
ModKeyDown(mod) ==
    /\ modWatchers > 0
    /\ IF modTargetAttached
       THEN IF mod
            THEN /\ modCalls + modWatchers <= MaxModCalls
                 /\ modCalls' = modCalls + modWatchers
                 /\ modWatchers' = 0
                 /\ modEvent' = "keydown-mod"
            ELSE /\ modEvent' = "keydown"
                 /\ UNCHANGED <<modWatchers, modCalls>>
       ELSE /\ modWatchers' = 0
            /\ modEvent' = "keydown-detached"
            /\ UNCHANGED modCalls
    /\ UNCHANGED <<modTargetAttached, hoverVars, setVars, hlVars, hostVars>>

\* onMouseOver with a target outside targetEl, or onMouseLeave of the
\* document, of every call that is watching, with the listeners kept
MutModPointerEscapesKeepsListeners ==
    /\ modWatchers > 0
    /\ modWatchers' = modWatchers
    /\ \E ev \in {"mouseover-outside", "mouseleave"} : modEvent' = ev
    /\ UNCHANGED <<modCalls, modTargetAttached, hoverVars, setVars, hlVars, hostVars>>

\* onMouseOver with a target outside targetEl, or onMouseLeave of the
\* document, of every call that is watching
ModPointerEscapes ==
    /\ modWatchers > 0
    /\ modWatchers' = 0
    /\ \E ev \in {"mouseover-outside", "mouseleave"} : modEvent' = ev
    /\ UNCHANGED <<modCalls, modTargetAttached, hoverVars, setVars, hlVars, hostVars>>

\* onMouseOver with a target inside targetEl: the calls keep watching
ModPointerInside ==
    /\ modWatchers > 0
    /\ modTargetAttached
    /\ modEvent' = "mouseover-inside"
    /\ UNCHANGED <<modWatchers, modCalls, modTargetAttached, hoverVars, setVars, hlVars,
                   hostVars>>

\* targetEl is taken out of the document
ModTargetDetached ==
    /\ modTargetAttached
    /\ modTargetAttached' = FALSE
    /\ UNCHANGED <<modWatchers, modCalls, modEvent, hoverVars, setVars, hlVars, hostVars>>

\* onModKeyPress is called with and without the modifier held, the document
\* dispatches its events, targetEl may be detached
NextMod ==
    \/ \E mod \in BOOLEAN : OnModKeyPress(mod)
    \/ \E mod \in BOOLEAN : ModKeyDown(mod)
    \/ ModPointerEscapes
    \/ ModPointerInside
    \/ ModTargetDetached

SpecMod == InitPane /\ [][NextMod]_vars

\* the events at which a call stops watching
StopEvents == {"mouseover-outside", "mouseleave", "keydown-detached"}

\* C19: once the pointer moved over a node outside targetEl, the pointer left
\* the document, or 'keydown' arrived with targetEl detached, the listeners of
\* the calls that were watching are off the document, and callback is invoked
\* only by a call that has the modifier held or by 'keydown' with the modifier
\* for the calls still watching, so never for a call that stopped.
C19_StopsWatching ==
    [][/\ modEvent' \in StopEvents => modWatchers' = 0
       /\ modCalls' > modCalls =>
             \/ /\ modEvent' = "none"
                /\ modCalls' = modCalls + 1
                /\ modWatchers' = modWatchers
             \/ /\ modEvent' = "keydown-mod"
                /\ modTargetAttached
                /\ modCalls' = modCalls + modWatchers
                /\ modWatchers' = 0]_vars

\* calls were watching, a stop event arrived with callbacks still to be made,
\* and no listener is left
C19_Witness ==
    /\ modEvent \in StopEvents
    /\ modWatchers = 0
    /\ modCalls < MaxModCalls

(***************************************************************************)
(* Teardown: the highlighter and the hover component are unloaded           *)
(***************************************************************************)

\* The file is shown with a colored selection and an annotation linked on
\* page 1; the pointer moves between parentEl and the rest of the window;
\* onModKeyPress is called without the modifier held.
NextTeardown ==
    \/ SetFile
    \/ MetadataResolved
    \/ TextLayerRendered(1)
    \/ AnnotationLayerRendered(1)
    \/ Unload
    \/ ShowChildElOnParentElHover
    \/ \E to \in {<<"out", 0>>, <<"parent", 0>>} : PointerMoves(to, TRUE)
    \/ \E k \in 1..MaxSessions : TimerFires(k)
    \/ UnloadComponent
    \/ OnModKeyPress(FALSE)
    \/ \E mod \in BOOLEAN : ModKeyDown(mod)
    \/ ModPointerEscapes
    \/ ModTargetDetached

InitTeardown ==
    /\ InitSettings
    /\ InitHighlighter
    /\ ~isEmbed
    /\ cache = {2, 5}
    /\ textLayer = [p \in Pages |-> FALSE]
    /\ textDivs = [p \in Pages |-> FreshDivs(p)]
    /\ annotationLayer = [p \in Pages |-> FALSE]
    /\ InitUtil

SpecTeardown == InitTeardown /\ [][NextTeardown]_vars

\* C6: on teardown every DOM listener registered by this code is removed:
\* after the highlighter and the component handed to
\* showChildElOnParentElHover have been unloaded, no handler installed by
\* hookEventHandlers, showChildElOnParentElHover or onModKeyPress is left on
\* an element, so none can still fire.
C6_ListenersRemovedOnTeardown ==
    (~loaded /\ ~compLoaded) =>
        /\ listeners = {}
        /\ ~hoverInstalled
        /\ \A k \in 1..Len(sessions) : ~sessions[k].active
        /\ modWatchers = 0

====
